---- MODULE Spec2Model ----
(***************************************************************************)
(* Model of the credential and reset-challenge lifecycle of server.js:     *)
(* POST /api/register, /api/login, /api/auth/forgot-password,              *)
(* /api/auth/verify-reset-otp and /api/auth/reset-password over the users  *)
(* table.                                                                  *)
(*                                                                         *)
(* A JavaScript string is a sequence of one-character strings, so that     *)
(* trim(), toLowerCase() and length are computed and not assumed.          *)
(* Time is in milliseconds, as Date.now() gives it.                        *)
(***************************************************************************)
EXTENDS Integers, Sequences, FiniteSets, TLC

VARIABLES
    users,      \* the rows of table users, in insertion order
    now,        \* Date.now()
    smtp,       \* whether SMTP_USER and SMTP_PASS are set in the environment
    res,        \* the last response sent: [status, success, message | user]
    mail,       \* the mail the transporter delivered for the last request
    compares,   \* per email: bcrypt.compare calls made by verify-reset-otp
                \* against the reset_otp_hash now stored (history variable)
    inflight,   \* per client: the request it has in flight between two awaits
    last        \* the last request answered: [op, email, pending, attempts],
                \* its route and email as sent, and whether a challenge was
                \* pending, with how many attempts, when it arrived (history)

vars == <<users, now, smtp, res, mail, compares, inflight, last>>

----------------------------------------------------------------------------
(* Bounds of the model *)

\* Date.now() is read at most this many half windows after the start
MaxTicks == 3

\* concurrent clients of the interleaved specifications
NumClients == 2

\* bcrypt.hash draws one of this many salts
NumSalts == 1

Salts == 1..NumSalts
NoSalt == 0

\* what a handler draws at random: nothing when it returns before the call
Drawn(reached, S, none) == IF reached THEN S ELSE {none}

\* request bodies
S_EMPTY  == <<>>
S_a      == <<"a">>
S_A_pad  == <<" ", "A", " ">>
S_b      == <<"b">>
\* emails in request bodies; only those of RegisterEmails are ever registered
RawEmails == {S_EMPTY, S_A_pad, S_b}
RegisterEmails == {S_EMPTY, S_a, S_A_pad}

P_5      == <<"p", "w", "1", "2", "3">>
P_6      == <<"s", "e", "c", "r", "e", "t">>
Passwords == {S_EMPTY, P_5, P_6}

----------------------------------------------------------------------------
(* JavaScript strings *)

IsSpace(c) == c = " "

RECURSIVE TrimStart(_)
TrimStart(s) ==
    IF s # <<>> /\ IsSpace(Head(s)) THEN TrimStart(Tail(s)) ELSE s

RECURSIVE TrimEnd(_)
TrimEnd(s) ==
    IF s # <<>> /\ IsSpace(s[Len(s)]) THEN TrimEnd(SubSeq(s, 1, Len(s) - 1)) ELSE s

\* String.prototype.trim
Trim(s) == TrimEnd(TrimStart(s))

LowerChar(c) ==
    CASE c = "A" -> "a"
      [] c = "B" -> "b"
      [] OTHER   -> c

\* String.prototype.toLowerCase
ToLowerCase(s) == [i \in 1..Len(s) |-> LowerChar(s[i])]

\* String(email || "").trim().toLowerCase()
NormalizeEmail(email) == ToLowerCase(Trim(email))

Digit(d) == CASE d = 0 -> "0" [] d = 1 -> "1" [] d = 2 -> "2" [] d = 3 -> "3"
              [] d = 4 -> "4" [] d = 5 -> "5" [] d = 6 -> "6" [] d = 7 -> "7"
              [] d = 8 -> "8" [] d = 9 -> "9"

\* String(n) of a non-negative integer
RECURSIVE NumberToString(_)
NumberToString(n) ==
    IF n < 10 THEN <<Digit(n)>>
    ELSE Append(NumberToString(n \div 10), Digit(n % 10))

----------------------------------------------------------------------------
(* bcryptjs: a hash carries its salt; it is verified, never inverted *)

bcryptHash(secret, salt) == [salt |-> salt, digest |-> secret]

bcryptCompare(secret, hash) == hash.digest = secret

----------------------------------------------------------------------------
(* The users table *)

NULL == [null |-> TRUE]

\* SELECT ... FROM users WHERE email = ?
SelectByEmail(table, emailLower) ==
    SelectSeq(table, LAMBDA row : row.email = emailLower)

\* mutant: the table has no unique key on email
DuplicateKey_NoUniqueKey(table, emailLower) == FALSE

\* the table's unique key on email: whether an insert of emailLower is refused
DuplicateKey(table, emailLower) ==
    Len(SelectByEmail(table, emailLower)) > 0

\* INSERT INTO users (email, password_hash) VALUES (?, ?)
InsertUser(table, emailLower, hash) ==
    Append(table, [id                 |-> Len(table) + 1,
                   email              |-> emailLower,
                   password_hash      |-> hash,
                   reset_otp_hash     |-> NULL,
                   reset_otp_expires  |-> NULL,
                   reset_otp_attempts |-> 0])

HasAccount(table, emailLower) == Len(SelectByEmail(table, emailLower)) > 0

\* rows[0]
Account(table, emailLower) == SelectByEmail(table, emailLower)[1]

----------------------------------------------------------------------------
(* Responses: res.json(...) and res.status(500).json(...) *)

Json(success, message) ==
    [status |-> 200, success |-> success, message |-> message]

ServerError(message) ==
    [status |-> 500, success |-> FALSE, message |-> message]

NoMail == [to |-> NULL]

Message(r) == IF "message" \in DOMAIN r THEN r.message ELSE ""

\* !user.reset_otp_hash || !user.reset_otp_expires
NoChallenge(user) ==
    user.reset_otp_hash = NULL \/ user.reset_otp_expires = NULL

\* what is recorded of a request when it arrives
Arrival(table, op, email) ==
    LET emailLower == NormalizeEmail(email)
        pending == HasAccount(table, emailLower)
                     /\ ~NoChallenge(Account(table, emailLower))
    IN  [op |-> op, email |-> email, pending |-> pending,
         attempts |-> IF pending
                      THEN Account(table, emailLower).reset_otp_attempts
                      ELSE 0]

----------------------------------------------------------------------------
(* POST /api/register *)

MinPasswordLength == 6

\* mutant: the handler does not look at the length of the password
RegisterValidation_NoMinLength(emailLower, pass) ==
    IF emailLower = <<>> \/ pass = <<>>
    THEN Json(FALSE, "Email & password required")
    ELSE NULL

RegisterValidation(emailLower, pass) ==
    IF emailLower = <<>> \/ pass = <<>>
    THEN Json(FALSE, "Email & password required")
    ELSE IF Len(pass) < MinPasswordLength
    THEN Json(FALSE, "Password must be at least 6 characters")
    ELSE NULL

\* mutant: the handler does not look for the email before it inserts
RegisterExists_Never(table, emailLower) == FALSE

\* const [exist] = SELECT id ...; exist.length > 0
RegisterExists(table, emailLower) ==
    Len(SelectByEmail(table, emailLower)) > 0

\* the INSERT and what follows it: the response, or the catch block's when the
\* table refuses the row
RegisterInsert(table, emailLower, hash) ==
    IF DuplicateKey(table, emailLower)
    THEN [users |-> table, res |-> ServerError("Server error (register)")]
    ELSE [users |-> InsertUser(table, emailLower, hash),
          res   |-> Json(TRUE, "Account created")]

\* the early returns of the handler; NULL when it goes on to bcrypt.hash
RegisterRejection(table, email, password) ==
    LET emailLower == NormalizeEmail(email)
        pass == password
        invalid == RegisterValidation(emailLower, pass)
    IN  IF invalid # NULL
        THEN invalid
        ELSE IF RegisterExists(table, emailLower)
        THEN Json(FALSE, "Email already exists")
        ELSE NULL

\* [users, res]
RegisterResult(table, email, password, salt) ==
    LET rejection == RegisterRejection(table, email, password)
    IN  IF rejection # NULL
        THEN [users |-> table, res |-> rejection]
        ELSE RegisterInsert(table, NormalizeEmail(email),
                            bcryptHash(password, salt))

Register(email, password) ==
    \E salt \in Drawn(RegisterRejection(users, email, password) = NULL,
                      Salts, NoSalt) :
        LET r == RegisterResult(users, email, password, salt)
        IN  /\ users' = r.users
            /\ res' = r.res
            /\ mail' = NoMail
            /\ last' = Arrival(users, "register", email)
            /\ UNCHANGED <<now, smtp, compares, inflight>>

----------------------------------------------------------------------------
(* POST /api/login *)

\* mutant: login looks the email up without trimming it
LoginResponse_NoTrim(table, email, password) ==
    LET emailLower == ToLowerCase(email)
        rows == SelectByEmail(table, emailLower)
    IN  IF emailLower = <<>> \/ password = <<>>
        THEN Json(FALSE, "Email & password required")
        ELSE IF Len(rows) = 0
        THEN Json(FALSE, "User not found. Please Sign Up.")
        ELSE IF ~bcryptCompare(password, rows[1].password_hash)
        THEN Json(FALSE, "Wrong password")
        ELSE [status |-> 200, success |-> TRUE,
              user |-> [id |-> rows[1].id, email |-> rows[1].email]]

LoginResponse(table, email, password) ==
    LET emailLower == NormalizeEmail(email)
        pass == password
        rows == SelectByEmail(table, emailLower)
    IN  IF emailLower = <<>> \/ pass = <<>>
        THEN Json(FALSE, "Email & password required")
        ELSE IF Len(rows) = 0
        THEN Json(FALSE, "User not found. Please Sign Up.")
        ELSE IF ~bcryptCompare(pass, rows[1].password_hash)
        THEN Json(FALSE, "Wrong password")
        ELSE [status |-> 200, success |-> TRUE,
              user |-> [id |-> rows[1].id, email |-> rows[1].email]]

Login(email, password) ==
    /\ res' = LoginResponse(users, email, password)
    /\ mail' = NoMail
    /\ last' = Arrival(users, "login", email)
    /\ UNCHANGED <<users, now, smtp, compares, inflight>>

----------------------------------------------------------------------------
(* POST /api/auth/forgot-password *)

OtpWindowMs == 5 * 60 * 1000

\* String(Math.floor(100000 + Math.random() * 900000)), where draw is
\* Math.floor(Math.random() * 900000)
generateOtp6(draw) == NumberToString(100000 + draw)

\* the draws of the model: the first two codes of the range
OtpDraws == {0, 1}

\* mutant: a new code leaves the attempts counter as it was
SetChallenge_KeepsAttempts(table, emailLower, otpHash, expires) ==
    [i \in 1..Len(table) |->
        IF table[i].email = emailLower
        THEN [table[i] EXCEPT !.reset_otp_hash = otpHash,
                              !.reset_otp_expires = expires]
        ELSE table[i]]

\* UPDATE users SET reset_otp_hash=?, reset_otp_expires=?, reset_otp_attempts=0
\*   WHERE email=?
SetChallenge(table, emailLower, otpHash, expires) ==
    [i \in 1..Len(table) |->
        IF table[i].email = emailLower
        THEN [table[i] EXCEPT !.reset_otp_hash = otpHash,
                              !.reset_otp_expires = expires,
                              !.reset_otp_attempts = 0]
        ELSE table[i]]

\* the early returns of the handler; NULL when it goes on to generateOtp6
ForgotPasswordRejection(table, smtpSet, email) ==
    LET emailLower == NormalizeEmail(email)
        rows == SelectByEmail(table, emailLower)
    IN  IF emailLower = <<>>
        THEN Json(FALSE, "Email required")
        ELSE IF Len(rows) = 0
        THEN Json(TRUE, "If email exists, OTP sent.")
        ELSE IF ~smtpSet
        THEN ServerError("SMTP not configured. Add SMTP_USER & SMTP_PASS in .env")
        ELSE NULL

\* mutant: a failed delivery takes the stored challenge back
ForgotPasswordResult_DropsOnFailure(table, t, smtpSet, email, draw, salt, sendOk) ==
    LET emailLower == NormalizeEmail(email)
        rejection == ForgotPasswordRejection(table, smtpSet, email)
        otp == generateOtp6(draw)
        otpHash == bcryptHash(otp, salt)
        expires == [time |-> t + OtpWindowMs]
        stored == SetChallenge(table, emailLower, otpHash, expires)
    IN  IF rejection # NULL
        THEN [users |-> table, res |-> rejection, mail |-> NoMail,
              issued |-> FALSE]
        ELSE IF sendOk
        THEN [users |-> stored, res |-> Json(TRUE, "OTP sent to your email."),
              mail |-> [to |-> emailLower, otp |-> otp], issued |-> TRUE]
        ELSE [users |-> table,
              res |-> ServerError("Server error (forgot-password)"),
              mail |-> NoMail, issued |-> FALSE]

\* [users, res, mail, issued]: the table, the response, the mail delivered and
\* whether a new code was stored. sendOk: transporter.sendMail resolves
ForgotPasswordResult(table, t, smtpSet, email, draw, salt, sendOk) ==
    LET emailLower == NormalizeEmail(email)
        rejection == ForgotPasswordRejection(table, smtpSet, email)
        otp == generateOtp6(draw)
        otpHash == bcryptHash(otp, salt)
        expires == [time |-> t + OtpWindowMs]
        stored == SetChallenge(table, emailLower, otpHash, expires)
    IN  IF rejection # NULL
        THEN [users |-> table, res |-> rejection, mail |-> NoMail,
              issued |-> FALSE]
        ELSE IF sendOk
        THEN [users |-> stored, res |-> Json(TRUE, "OTP sent to your email."),
              mail |-> [to |-> emailLower, otp |-> otp], issued |-> TRUE]
        ELSE [users |-> stored,
              res |-> ServerError("Server error (forgot-password)"),
              mail |-> NoMail, issued |-> TRUE]

ForgotPassword(email) ==
    LET reached == ForgotPasswordRejection(users, smtp, email) = NULL
        emailLower == NormalizeEmail(email)
    IN  \E draw \in Drawn(reached, OtpDraws, 0),
           salt \in Drawn(reached, Salts, NoSalt),
           sendOk \in Drawn(reached, BOOLEAN, TRUE) :
            LET r == ForgotPasswordResult(users, now, smtp, email, draw, salt,
                                          sendOk)
            IN  /\ users' = r.users
                /\ res' = r.res
                /\ mail' = r.mail
                /\ compares' = IF r.issued
                               THEN [compares EXCEPT ![emailLower] = 0]
                               ELSE compares
                /\ last' = Arrival(users, "forgot-password", email)
                /\ UNCHANGED <<now, smtp, inflight>>

----------------------------------------------------------------------------
(* POST /api/auth/verify-reset-otp *)

MaxAttempts == 5

\* new Date(user.reset_otp_expires).getTime() < Date.now()
IsExpired(user, t) == user.reset_otp_expires.time < t

\* mutant: the ceiling is one attempt late
AttemptsExhausted_OffByOne(user) == user.reset_otp_attempts > MaxAttempts

\* (user.reset_otp_attempts || 0) >= 5
AttemptsExhausted(user) == user.reset_otp_attempts >= MaxAttempts

\* the early returns of the handler; NULL when it goes on to bcrypt.compare
VerifyRejection(table, t, email, otpIn) ==
    LET emailLower == NormalizeEmail(email)
        otp == Trim(otpIn)
        rows == SelectByEmail(table, emailLower)
    IN  IF emailLower = <<>> \/ otp = <<>>
        THEN Json(FALSE, "Email & OTP required")
        ELSE IF Len(rows) = 0
        THEN Json(FALSE, "User not found")
        ELSE IF NoChallenge(rows[1])
        THEN Json(FALSE, "OTP not requested.")
        ELSE IF IsExpired(rows[1], t)
        THEN Json(FALSE, "OTP expired. Request again.")
        ELSE IF AttemptsExhausted(rows[1])
        THEN Json(FALSE, "Too many attempts. Request new OTP.")
        ELSE NULL

\* UPDATE users SET reset_otp_attempts = reset_otp_attempts + 1 WHERE email=?
IncrementAttempts(table, emailLower) ==
    [i \in 1..Len(table) |->
        IF table[i].email = emailLower
        THEN [table[i] EXCEPT !.reset_otp_attempts = @ + 1]
        ELSE table[i]]

\* mutant: an expired challenge is charged an attempt
VerifyResetOtpResult_CountsExpired(table, t, email, otpIn) ==
    LET emailLower == NormalizeEmail(email)
        otp == Trim(otpIn)
        rows == SelectByEmail(table, emailLower)
        rejection == VerifyRejection(table, t, email, otpIn)
    IN  IF rejection = Json(FALSE, "OTP expired. Request again.")
        THEN [users |-> IncrementAttempts(table, emailLower),
              res |-> rejection, compared |-> FALSE]
        ELSE IF rejection # NULL
        THEN [users |-> table, res |-> rejection, compared |-> FALSE]
        ELSE [users |-> IncrementAttempts(table, emailLower),
              res |-> IF bcryptCompare(otp, rows[1].reset_otp_hash)
                      THEN Json(TRUE, "OTP verified.")
                      ELSE Json(FALSE, "Invalid OTP."),
              compared |-> TRUE]

\* [users, res, compared]
VerifyResetOtpResult(table, t, email, otpIn) ==
    LET emailLower == NormalizeEmail(email)
        otp == Trim(otpIn)
        rows == SelectByEmail(table, emailLower)
        rejection == VerifyRejection(table, t, email, otpIn)
    IN  IF rejection # NULL
        THEN [users |-> table, res |-> rejection, compared |-> FALSE]
        ELSE [users |-> IncrementAttempts(table, emailLower),
              res |-> IF bcryptCompare(otp, rows[1].reset_otp_hash)
                      THEN Json(TRUE, "OTP verified.")
                      ELSE Json(FALSE, "Invalid OTP."),
              compared |-> TRUE]

VerifyResetOtp(email, otpIn) ==
    LET r == VerifyResetOtpResult(users, now, email, otpIn)
        emailLower == NormalizeEmail(email)
    IN  /\ users' = r.users
        /\ res' = r.res
        /\ mail' = NoMail
        /\ compares' = IF r.compared
                       THEN [compares EXCEPT ![emailLower] = @ + 1]
                       ELSE compares
        /\ last' = Arrival(users, "verify-reset-otp", email)
        /\ UNCHANGED <<now, smtp, inflight>>

----------------------------------------------------------------------------
(* POST /api/auth/reset-password *)

\* mutant: the attempts ceiling gates reset-password as it gates verify
ResetRejection_CeilingGates(table, t, email, otpIn, newPassword) ==
    LET emailLower == NormalizeEmail(email)
        otp == Trim(otpIn)
        rows == SelectByEmail(table, emailLower)
    IN  IF emailLower = <<>> \/ otp = <<>> \/ newPassword = <<>>
        THEN Json(FALSE, "Email, OTP, newPassword required")
        ELSE IF Len(rows) = 0
        THEN Json(FALSE, "User not found")
        ELSE IF NoChallenge(rows[1])
        THEN Json(FALSE, "OTP not requested.")
        ELSE IF IsExpired(rows[1], t)
        THEN Json(FALSE, "OTP expired. Request again.")
        ELSE IF AttemptsExhausted(rows[1])
        THEN Json(FALSE, "Too many attempts. Request new OTP.")
        ELSE IF ~bcryptCompare(otp, rows[1].reset_otp_hash)
        THEN Json(FALSE, "Invalid OTP.")
        ELSE NULL

\* the early returns of the handler; NULL when it goes on to bcrypt.hash
ResetRejection(table, t, email, otpIn, newPassword) ==
    LET emailLower == NormalizeEmail(email)
        otp == Trim(otpIn)
        rows == SelectByEmail(table, emailLower)
    IN  IF emailLower = <<>> \/ otp = <<>> \/ newPassword = <<>>
        THEN Json(FALSE, "Email, OTP, newPassword required")
        ELSE IF Len(rows) = 0
        THEN Json(FALSE, "User not found")
        ELSE IF NoChallenge(rows[1])
        THEN Json(FALSE, "OTP not requested.")
        ELSE IF IsExpired(rows[1], t)
        THEN Json(FALSE, "OTP expired. Request again.")
        ELSE IF ~bcryptCompare(otp, rows[1].reset_otp_hash)
        THEN Json(FALSE, "Invalid OTP.")
        ELSE NULL

\* mutant: the password is replaced and the challenge left in place
UpdatePassword_KeepsChallenge(table, emailLower, hash) ==
    [i \in 1..Len(table) |->
        IF table[i].email = emailLower
        THEN [table[i] EXCEPT !.password_hash = hash]
        ELSE table[i]]

\* UPDATE users SET password_hash=?, reset_otp_hash=NULL,
\*   reset_otp_expires=NULL, reset_otp_attempts=0 WHERE email=?
UpdatePassword(table, emailLower, hash) ==
    [i \in 1..Len(table) |->
        IF table[i].email = emailLower
        THEN [table[i] EXCEPT !.password_hash = hash,
                              !.reset_otp_hash = NULL,
                              !.reset_otp_expires = NULL,
                              !.reset_otp_attempts = 0]
        ELSE table[i]]

\* [users, res, updated]
ResetPasswordResult(table, t, email, otpIn, newPassword, salt) ==
    LET emailLower == NormalizeEmail(email)
        rejection == ResetRejection(table, t, email, otpIn, newPassword)
    IN  IF rejection # NULL
        THEN [users |-> table, res |-> rejection, updated |-> FALSE]
        ELSE [users |-> UpdatePassword(table, emailLower,
                                       bcryptHash(newPassword, salt)),
              res |-> Json(TRUE, "Password updated successfully."),
              updated |-> TRUE]

ResetPassword(email, otpIn, newPassword) ==
    LET reached == ResetRejection(users, now, email, otpIn, newPassword) = NULL
        emailLower == NormalizeEmail(email)
    IN  \E salt \in Drawn(reached, Salts, NoSalt) :
            LET r == ResetPasswordResult(users, now, email, otpIn, newPassword,
                                         salt)
            IN  /\ users' = r.users
                /\ res' = r.res
                /\ mail' = NoMail
                /\ compares' = IF r.updated
                               THEN [compares EXCEPT ![emailLower] = 0]
                               ELSE compares
                /\ last' = Arrival(users, "reset-password", email)
                /\ UNCHANGED <<now, smtp, inflight>>

----------------------------------------------------------------------------
(* The clock: Date.now() moves on by half the OTP window *)

TickMs == OtpWindowMs \div 2

Tick ==
    /\ now + TickMs <= MaxTicks * TickMs
    /\ now' = now + TickMs
    /\ UNCHANGED <<users, smtp, res, mail, compares, inflight, last>>

----------------------------------------------------------------------------
(* Requests handled one at a time, each to completion *)

NormEmails == {NormalizeEmail(e) : e \in RawEmails \cup RegisterEmails} \ {<<>>}

OtpInputs ==
    {S_EMPTY, <<" ">> \o generateOtp6(0) \o <<" ">>}
        \cup {generateOtp6(d) : d \in OtpDraws \ {0}}

Clients == 1..NumClients

Idle == [pc |-> "idle"]

Init ==
    /\ users = <<>>
    /\ now = 0
    /\ smtp \in BOOLEAN
    /\ res = NULL
    /\ mail = NoMail
    /\ compares = [e \in NormEmails |-> 0]
    /\ inflight = [c \in Clients |-> Idle]
    /\ last = [op |-> "none"]

Next ==
    \/ \E email \in RegisterEmails, password \in Passwords :
          Register(email, password)
    \/ \E email \in RawEmails, password \in Passwords :
          Login(email, password)
    \/ \E email \in RawEmails :
          ForgotPassword(email)
    \/ \E email \in RawEmails, otp \in OtpInputs :
          VerifyResetOtp(email, otp)
    \/ \E email \in RawEmails, otp \in OtpInputs, newPassword \in Passwords :
          ResetPassword(email, otp, newPassword)
    \/ Tick

Spec == Init /\ [][Next]_vars

----------------------------------------------------------------------------
(* Concurrent POST /api/register: a handler yields at each await, so the   *)
(* SELECT and the INSERT of one request are two steps, and the steps of    *)
(* other requests come between them                                        *)

RaceEmails == {S_a, S_A_pad, S_b}

\* validation and the SELECT; the handler answers, or goes on to the INSERT
RegisterSelect(c, email, password) ==
    LET rejection == RegisterRejection(users, email, password)
    IN  /\ inflight[c] = Idle
        /\ IF rejection # NULL
           THEN /\ res' = rejection
                /\ last' = Arrival(users, "register", email)
                /\ UNCHANGED inflight
           ELSE /\ inflight' = [inflight EXCEPT ![c] =
                        [pc |-> "insert", email |-> email,
                         emailLower |-> NormalizeEmail(email),
                         pass |-> password]]
                /\ UNCHANGED <<res, last>>
        /\ UNCHANGED <<users, now, smtp, mail, compares>>

\* bcrypt.hash and the INSERT
RegisterInsertStep(c) ==
    /\ inflight[c].pc = "insert"
    /\ \E salt \in Salts :
          LET r == RegisterInsert(users, inflight[c].emailLower,
                                  bcryptHash(inflight[c].pass, salt))
          IN  /\ users' = r.users
              /\ res' = r.res
    /\ last' = Arrival(users, "register", inflight[c].email)
    /\ inflight' = [inflight EXCEPT ![c] = Idle]
    /\ UNCHANGED <<now, smtp, mail, compares>>

NextRegisterRace ==
    \/ \E c \in Clients, email \in RaceEmails, password \in Passwords :
          RegisterSelect(c, email, password)
    \/ \E c \in Clients : RegisterInsertStep(c)

SpecRegisterRace == Init /\ [][NextRegisterRace]_vars

----------------------------------------------------------------------------
(* router.post("/login") of src/unnamed/part_000. The route reads a users  *)
(* table with a password column and writes nothing; no code of the         *)
(* repository fills that table, so its rows are an input of the route.     *)

\* emails are stored as sent: the route normalizes nothing
RouterEmails == {S_a, S_A_pad, S_b}

RouterRows ==
    {[email |-> e, password |-> p] : e \in RouterEmails, p \in {P_5, P_6}}

\* the tables of at most two rows with one row per email, ids in row order
RouterTables ==
    {<<>>}
      \cup {<<[id |-> 1] @@ r>> : r \in RouterRows}
      \cup {<<[id |-> 1] @@ rr[1], [id |-> 2] @@ rr[2]>> :
               rr \in {pair \in RouterRows \X RouterRows :
                          pair[1].email # pair[2].email}}

\* SELECT * FROM users WHERE email = ? AND password = ?
RouterSelect(table, email, password) ==
    SelectSeq(table, LAMBDA row : row.email = email /\ row.password = password)

\* the callback of db.query: err, no row, or res.json with result[0]
RouterLoginResponse(table, email, password, dbOk) ==
    LET result == RouterSelect(table, email, password)
    IN  IF ~dbOk
        THEN [status |-> 500, error |-> "Database error"]
        ELSE IF Len(result) = 0
        THEN [status |-> 401, error |-> "Invalid credentials"]
        ELSE [status |-> 200, message |-> "Login successful",
              user |-> result[1]]

RouterLogin(email, password) ==
    /\ \E dbOk \in BOOLEAN :
          res' = RouterLoginResponse(users, email, password, dbOk)
    /\ mail' = NoMail
    /\ last' = [op |-> "router-login", email |-> email, pending |-> FALSE,
                attempts |-> 0]
    /\ UNCHANGED <<users, now, smtp, compares, inflight>>

InitRouterLogin ==
    /\ users \in RouterTables
    /\ now = 0
    /\ smtp = FALSE
    /\ res = NULL
    /\ mail = NoMail
    /\ compares = [e \in NormEmails |-> 0]
    /\ inflight = [c \in Clients |-> Idle]
    /\ last = [op |-> "none"]

NextRouterLogin ==
    \E email \in RouterEmails, password \in Passwords :
        RouterLogin(email, password)

SpecRouterLogin == InitRouterLogin /\ [][NextRouterLogin]_vars

----------------------------------------------------------------------------
(* Concurrent requests of the reset flow for one account. A handler yields *)
(* at each await: verify-reset-otp between its SELECT (with the checks and *)
(* bcrypt.compare on the row it read) and its UPDATE, reset-password       *)
(* between its SELECT (the same) and its UPDATE. forgot-password writes    *)
(* the row in one UPDATE statement and reads nothing of the challenge, so  *)
(* it is taken whole, at the point of that UPDATE.                         *)

ResetRaceEmails == {S_A_pad}
ResetRaceOtps == {<<" ">> \o generateOtp6(0) \o <<" ">>, generateOtp6(1)}
ResetRacePasswords == {S_EMPTY, P_5}

\* lines 231-256: validation, the SELECT, the checks on the row read and
\* bcrypt.compare against the hash read
VerifySelect(c, email, otpIn) ==
    LET emailLower == NormalizeEmail(email)
        rejection == VerifyRejection(users, now, email, otpIn)
    IN  /\ inflight[c] = Idle
        /\ IF rejection # NULL
           THEN /\ res' = rejection
                /\ last' = Arrival(users, "verify-reset-otp", email)
                /\ UNCHANGED <<inflight, compares>>
           ELSE /\ inflight' = [inflight EXCEPT ![c] =
                        [pc |-> "verify-update", email |-> email,
                         emailLower |-> emailLower,
                         ok |-> bcryptCompare(Trim(otpIn),
                                    Account(users, emailLower).reset_otp_hash)]]
                /\ compares' = [compares EXCEPT ![emailLower] = @ + 1]
                /\ UNCHANGED <<res, last>>
        /\ UNCHANGED <<users, now, smtp, mail>>

\* lines 258-265: the UPDATE of attempts and the response
VerifyUpdate(c) ==
    /\ inflight[c].pc = "verify-update"
    /\ users' = IncrementAttempts(users, inflight[c].emailLower)
    /\ res' = IF inflight[c].ok
              THEN Json(TRUE, "OTP verified.")
              ELSE Json(FALSE, "Invalid OTP.")
    /\ last' = Arrival(users, "verify-reset-otp", inflight[c].email)
    /\ inflight' = [inflight EXCEPT ![c] = Idle]
    /\ UNCHANGED <<now, smtp, mail, compares>>

\* lines 279-301: validation, the SELECT, the checks on the row read and
\* bcrypt.compare against the hash read
ResetSelect(c, email, otpIn, newPassword) ==
    LET emailLower == NormalizeEmail(email)
        rejection == ResetRejection(users, now, email, otpIn, newPassword)
    IN  /\ inflight[c] = Idle
        /\ IF rejection # NULL
           THEN /\ res' = rejection
                /\ last' = Arrival(users, "reset-password", email)
                /\ UNCHANGED inflight
           ELSE /\ inflight' = [inflight EXCEPT ![c] =
                        [pc |-> "reset-update", email |-> email,
                         emailLower |-> emailLower, otp |-> Trim(otpIn),
                         pass |-> newPassword]]
                /\ UNCHANGED <<res, last>>
        /\ UNCHANGED <<users, now, smtp, mail, compares>>

\* lines 303-310: bcrypt.hash, the UPDATE and the response
ResetUpdate(c) ==
    /\ inflight[c].pc = "reset-update"
    /\ \E salt \in Salts :
          users' = UpdatePassword(users, inflight[c].emailLower,
                                  bcryptHash(inflight[c].pass, salt))
    /\ res' = Json(TRUE, "Password updated successfully.")
    /\ compares' = [compares EXCEPT ![inflight[c].emailLower] = 0]
    /\ last' = Arrival(users, "reset-password", inflight[c].email)
    /\ inflight' = [inflight EXCEPT ![c] = Idle]
    /\ UNCHANGED <<now, smtp, mail>>

\* the account of the race is registered, and SMTP is configured
InitResetRace ==
    /\ users = RegisterResult(<<>>, S_a, P_6, 1).users
    /\ now = 0
    /\ smtp = TRUE
    /\ res = NULL
    /\ mail = NoMail
    /\ compares = [e \in NormEmails |-> 0]
    /\ inflight = [c \in Clients |-> Idle]
    /\ last = [op |-> "none"]

NextResetRace ==
    \/ \E email \in ResetRaceEmails : ForgotPassword(email)
    \/ \E c \in Clients, email \in ResetRaceEmails, otp \in ResetRaceOtps :
          VerifySelect(c, email, otp)
    \/ \E c \in Clients : VerifyUpdate(c)
    \/ \E c \in Clients, email \in ResetRaceEmails, otp \in ResetRaceOtps,
          newPassword \in ResetRacePasswords :
          ResetSelect(c, email, otp, newPassword)
    \/ \E c \in Clients : ResetUpdate(c)
    \/ Tick

SpecResetRace == InitResetRace /\ [][NextResetRace]_vars

----------------------------------------------------------------------------
(* The claims. A step of a handler is named by its action, and the         *)
(* response by the message the handler sends.                              *)

MsgNoChallenge == "OTP not requested."
MsgExpired     == "OTP expired. Request again."
MsgExhausted   == "Too many attempts. Request new OTP."
MsgInvalidOtp  == "Invalid OTP."
MsgValid       == "OTP verified."
MsgUpdated     == "Password updated successfully."
MsgOtpSent     == "OTP sent to your email."
MsgDuplicate   == "Email already exists"
MsgCreated     == "Account created"

\* a challenge is pending for the email and the clock is before its expiresAt
PendingBeforeExpiry(table, t, emailLower) ==
    /\ HasAccount(table, emailLower)
    /\ ~NoChallenge(Account(table, emailLower))
    /\ t < Account(table, emailLower).reset_otp_expires.time

(* C1: after registration an account's passwordHash changes only in a     *)
(* reset-password step whose candidate OTP matches the stored otpHash and  *)
(* whose challenge is present and unexpired (now < expiresAt) at that      *)
(* step; no other step changes it.                                         *)
C1_PasswordChangesOnlyInValidCommit ==
    [][\A i \in 1..Len(users) :
          users'[i].password_hash # users[i].password_hash =>
            \E email \in RawEmails, otp \in OtpInputs, newPassword \in Passwords :
                /\ ResetPassword(email, otp, newPassword)
                /\ NormalizeEmail(email) = users[i].email
                /\ PendingBeforeExpiry(users, now, users[i].email)
                /\ bcryptCompare(Trim(otp), users[i].reset_otp_hash)]_vars

(* C1, up to and including the instant of expiry: the same with           *)
(* now <= expiresAt, which is what the handler tests.                      *)
C1_UpToExpiresAt ==
    [][\A i \in 1..Len(users) :
          users'[i].password_hash # users[i].password_hash =>
            \E email \in RawEmails, otp \in OtpInputs, newPassword \in Passwords :
                /\ ResetPassword(email, otp, newPassword)
                /\ NormalizeEmail(email) = users[i].email
                /\ ~NoChallenge(users[i])
                /\ now <= users[i].reset_otp_expires.time
                /\ bcryptCompare(Trim(otp), users[i].reset_otp_hash)]_vars

(* C2: with a challenge pending and unexpired and attempts >= 5, a         *)
(* reset-password call is rejected with Exhausted and leaves the row       *)
(* unchanged, whatever the candidate OTP.                                  *)
C2_CeilingGatesCommit ==
    [][\A email \in RawEmails, otp \in OtpInputs, newPassword \in Passwords :
          (/\ last'.op = "reset-password"
           /\ PendingBeforeExpiry(users, now, NormalizeEmail(email))
           /\ Account(users, NormalizeEmail(email)).reset_otp_attempts
                 >= MaxAttempts
           /\ Trim(otp) # <<>>
           /\ newPassword # <<>>
           /\ ResetPassword(email, otp, newPassword))
          => (res' = Json(FALSE, MsgExhausted) /\ users' = users)]_vars

(* C3: once verify-reset-otp has compared 5 candidates against the stored  *)
(* code, with no request or commit since, every further verify before      *)
(* expiry, with the correct code too, answers Exhausted, compares nothing  *)
(* and changes nothing.                                                    *)
C3_CeilingCountsAllAttempts ==
    [][\A email \in RawEmails, otp \in OtpInputs :
          (/\ last'.op = "verify-reset-otp"
           /\ PendingBeforeExpiry(users, now, NormalizeEmail(email))
           /\ compares[NormalizeEmail(email)] >= 5
           /\ Trim(otp) # <<>>
           /\ VerifyResetOtp(email, otp))
          => /\ res' = Json(FALSE, MsgExhausted)
             /\ ~VerifyResetOtpResult(users, now, email, otp).compared
             /\ users' = users
             /\ compares' = compares]_vars

C3_Witness ==
    /\ last.op = "verify-reset-otp"
    /\ res = Json(FALSE, MsgExhausted)
    /\ PendingBeforeExpiry(users, now, S_a)
    /\ compares[S_a] = 5

(* C4: forgot-password answers the same for a store with the account and  *)
(* for the same store without it.                                          *)
C4_RequestDoesNotRevealAccount ==
    \A email \in RawEmails, draw \in OtpDraws, salt \in Salts,
       sendOk \in BOOLEAN :
        LET without == SelectSeq(users,
                          LAMBDA row : row.email # NormalizeEmail(email))
        IN  ForgotPasswordResult(users, now, smtp, email, draw, salt,
                                 sendOk).res
              = ForgotPasswordResult(without, now, smtp, email, draw, salt,
                                     sendOk).res

\* what a successful reset-password step leaves behind; the old passwords
\* are those that logged in before, the new one among them or not
CommitReplacesPassword(newOneToo) ==
    \A email \in RawEmails, otp \in OtpInputs, newPassword \in Passwords :
        (/\ res' = Json(TRUE, MsgUpdated)
         /\ ResetPassword(email, otp, newPassword))
        => /\ \A old \in Passwords :
                 (/\ LoginResponse(users, email, old).success
                  /\ (newOneToo \/ old # newPassword))
                    => ~LoginResponse(users', email, old).success
           /\ LoginResponse(users', email, newPassword).success
           /\ Account(users', NormalizeEmail(email)).reset_otp_hash = NULL
           /\ Account(users', NormalizeEmail(email)).reset_otp_expires = NULL
           /\ VerifyResetOtpResult(users', now', email, otp).res
                 = Json(FALSE, MsgNoChallenge)

(* C5, as amended: after a successful reset-password, every password that *)
(* logged in before and is not the new password is rejected, the new       *)
(* password logs in, the challenge is cleared, and verify with the same    *)
(* OTP answers NoChallengeError.                                           *)
C5_CommitReplacesPassword ==
    [][CommitReplacesPassword(FALSE)]_vars

(* C5, as claimed: the same for every password that logged in before.     *)
C5_OldPasswordAlwaysRejected ==
    [][CommitReplacesPassword(TRUE)]_vars

C5_Witness ==
    /\ last.op = "reset-password"
    /\ res = Json(TRUE, MsgUpdated)
    /\ LoginResponse(users, S_A_pad, P_5).success

(* C6: a forgot-password for an account whose challenge is pending stores *)
(* the new code, sets attempts to 0 and expiresAt to now + 5 minutes;      *)
(* verify then answers InvalidOtp to a code of the old challenge that is   *)
(* not the new code, and Valid to the new code.                            *)
C6_SecondRequestOverwrites ==
    [][\A email \in RawEmails :
          LET e == NormalizeEmail(email)
              old == Account(users, e)
              new == Account(users', e)
          IN  (/\ last'.op = "forgot-password"
               /\ HasAccount(users, e)
               /\ ~NoChallenge(old)
               /\ ForgotPassword(email))
              => /\ new.reset_otp_attempts = 0
                 /\ new.reset_otp_expires = [time |-> now + 5 * 60 * 1000]
                 /\ mail' # NoMail => bcryptCompare(mail'.otp, new.reset_otp_hash)
                 /\ \A c \in OtpInputs :
                       /\ (/\ bcryptCompare(Trim(c), old.reset_otp_hash)
                           /\ ~bcryptCompare(Trim(c), new.reset_otp_hash))
                          => VerifyResetOtpResult(users', now', email, c).res
                                = Json(FALSE, MsgInvalidOtp)
                       /\ bcryptCompare(Trim(c), new.reset_otp_hash)
                          => VerifyResetOtpResult(users', now', email, c).res
                                = Json(TRUE, MsgValid)]_vars

C6_Witness ==
    /\ last.op = "forgot-password"
    /\ last.pending
    /\ last.attempts > 0
    /\ res = Json(TRUE, MsgOtpSent)
    /\ Account(users, S_a).reset_otp_attempts = 0
    /\ bcryptCompare(mail.otp, Account(users, S_a).reset_otp_hash)

(* C7: with a challenge pending, verify answers Expired whenever          *)
(* now >= expiresAt, and answers Valid only if now < expiresAt,            *)
(* attempts < 5 and the candidate is the code.                             *)
C7_ExpiredFromExpiresAtOn ==
    [][\A email \in RawEmails, otp \in OtpInputs :
          LET e == NormalizeEmail(email)
              acc == Account(users, e)
          IN  (/\ last'.op = "verify-reset-otp"
               /\ HasAccount(users, e)
               /\ ~NoChallenge(acc)
               /\ Trim(otp) # <<>>
               /\ VerifyResetOtp(email, otp))
              => /\ now >= acc.reset_otp_expires.time
                       => res' = Json(FALSE, MsgExpired)
                 /\ res' = Json(TRUE, MsgValid)
                       => /\ now < acc.reset_otp_expires.time
                          /\ acc.reset_otp_attempts < 5
                          /\ bcryptCompare(Trim(otp), acc.reset_otp_hash)]_vars

(* C8: under every interleaving of the SELECT and INSERT steps of          *)
(* concurrent register calls, no two rows of users have the same email.    *)
C8_NoTwoAccountsShareEmail ==
    \A i, j \in 1..Len(users) : i # j => users[i].email # users[j].email

C8_Witness ==
    /\ last.op = "register"
    /\ res = ServerError("Server error (register)")
    /\ HasAccount(users, NormalizeEmail(last.email))

(* C9: a register call with a valid password for an email that normalizes *)
(* to a stored account's answers DuplicateEmail and changes no row, so     *)
(* that email keeps exactly one account, with the passwordHash it had.     *)
C9_SecondRegisterIsDuplicate ==
    [][\A email \in RegisterEmails, password \in Passwords :
          (/\ last'.op = "register"
           /\ HasAccount(users, ToLowerCase(Trim(email)))
           /\ Len(password) >= 6
           /\ Register(email, password))
          => /\ res' = Json(FALSE, MsgDuplicate)
             /\ users' = users
             /\ Len(SelectByEmail(users', ToLowerCase(Trim(email)))) = 1]_vars

C9_Witness ==
    /\ last.op = "register"
    /\ last.email = S_A_pad
    /\ res = Json(FALSE, MsgDuplicate)
    /\ Len(users) = 1
    /\ users[1].email = S_a

(* C10: register with a non-empty normalized email not yet stored and a   *)
(* password of at least 6 characters creates the account, and login with   *)
(* the same email and password then succeeds with that account's id.       *)
C10_RegisterThenLogin ==
    [][\A email \in RegisterEmails, password \in Passwords :
          (/\ last'.op = "register"
           /\ ToLowerCase(Trim(email)) # <<>>
           /\ Len(password) >= 6
           /\ ~HasAccount(users, ToLowerCase(Trim(email)))
           /\ Register(email, password))
          => /\ res' = Json(TRUE, MsgCreated)
             /\ Len(users') = Len(users) + 1
             /\ users'[Len(users')].email = ToLowerCase(Trim(email))
             /\ LoginResponse(users', email, password).success
             /\ LoginResponse(users', email, password).user.id
                   = users'[Len(users')].id]_vars

C10_Witness ==
    /\ last.op = "register"
    /\ last.email = S_A_pad
    /\ res = Json(TRUE, MsgCreated)
    /\ LoginResponse(users, S_A_pad, P_6).success

OnlyIdAndEmail(r) ==
    /\ DOMAIN r \subseteq {"status", "success", "message", "error", "user"}
    /\ "user" \in DOMAIN r => DOMAIN r.user = {"id", "email"}

(* C12: a successful login response contains only the account's id and    *)
(* email, and no login response contains a stored password or             *)
(* passwordHash; for /login of part_000 and /api/login of server.js.       *)
C12_LoginReturnsOnlyIdAndEmail ==
    last.op \in {"login", "router-login"} => OnlyIdAndEmail(res)

(* C12 for POST /api/login of server.js alone: whatever the request, the  *)
(* response carries no more than id and email.                             *)
C12_ApiLoginReturnsOnlyIdAndEmail ==
    \A email \in RawEmails, password \in Passwords :
        OnlyIdAndEmail(LoginResponse(users, email, password))

MsgRequired  == "Email & password required"
MsgTooShort  == "Password must be at least 6 characters"

(* C13: a register call whose email is empty once trimmed and lowercased, *)
(* or whose password has fewer than 6 characters, is answered with a       *)
(* validation error and changes no row of users.                           *)
C13_InvalidRegisterRejected ==
    [][\A email \in RegisterEmails, password \in Passwords :
          (/\ last'.op = "register"
           /\ (ToLowerCase(Trim(email)) = <<>> \/ Len(password) < 6)
           /\ Register(email, password))
          => /\ res' \in {Json(FALSE, MsgRequired), Json(FALSE, MsgTooShort)}
             /\ users' = users]_vars

C13_Witness ==
    /\ last.op = "register"
    /\ last.email = S_A_pad
    /\ res = Json(FALSE, MsgTooShort)
    /\ Len(users) = 1
    /\ users[1].email = S_a

(* C14: under every interleaving of the steps of concurrent                *)
(* verify-reset-otp calls for one account, verify performs at most 5       *)
(* comparisons against a stored code before a forgot-password replaces it. *)
C14_AtMostFiveComparisons ==
    \A e \in NormEmails : compares[e] <= 5

(* C15: whenever no verify-reset-otp is between its SELECT and its UPDATE, *)
(* the attempts stored with a challenge are the number of comparisons      *)
(* verify has made against the stored code, forgot-password and            *)
(* reset-password calls interleaved with verify included.                  *)
C15_AttemptsCountComparisons ==
    (\A c \in Clients : inflight[c].pc # "verify-update")
      => \A i \in 1..Len(users) :
            ~NoChallenge(users[i])
              => users[i].reset_otp_attempts = compares[users[i].email]

(* C16: a reset-password that read an earlier code does not write          *)
(* password_hash and does not erase the challenge once a forgot-password   *)
(* has stored a code that its candidate does not match.                    *)
C16_SupersededCodeCannotCommit ==
    [][\A c \in Clients :
          LET e == inflight[c].emailLower
          IN  (/\ inflight[c].pc = "reset-update"
               /\ ~NoChallenge(Account(users, e))
               /\ ~bcryptCompare(inflight[c].otp, Account(users, e).reset_otp_hash)
               /\ ResetUpdate(c))
              => /\ Account(users', e).password_hash
                      = Account(users, e).password_hash
                 /\ Account(users', e).reset_otp_hash
                      = Account(users, e).reset_otp_hash
                 /\ Account(users', e).reset_otp_expires
                      = Account(users, e).reset_otp_expires]_vars

MsgNotFound == "User not found"

(* C17: a verify-reset-otp step changes no password_hash, reset_otp_hash  *)
(* or reset_otp_expires; answered NotFound, NoChallengeError, Expired or   *)
(* Exhausted it changes no row at all; and it adds exactly 1 to attempts   *)
(* when it compared the candidate, and nothing otherwise.                  *)
C17_VerifyWritesOnlyAttempts ==
    [][last'.op = "verify-reset-otp" =>
       \A email \in {last'.email}, otp \in OtpInputs :
          VerifyResetOtp(email, otp)
          => /\ Len(users') = Len(users)
             /\ \A i \in 1..Len(users) :
                   /\ users'[i].password_hash = users[i].password_hash
                   /\ users'[i].reset_otp_hash = users[i].reset_otp_hash
                   /\ users'[i].reset_otp_expires = users[i].reset_otp_expires
                   /\ users'[i].email = users[i].email
                   /\ users'[i].reset_otp_attempts
                        = users[i].reset_otp_attempts
                            + compares'[users[i].email]
                            - compares[users[i].email]
             /\ \A e \in NormEmails : compares'[e] - compares[e] \in {0, 1}
             /\ Message(res') \in {MsgNotFound, MsgNoChallenge, MsgExpired,
                                   MsgExhausted}
                  => (users' = users /\ compares' = compares)
             /\ compares' # compares
                  <=> Message(res') \in {MsgInvalidOtp, MsgValid}]_vars

C17_Witness ==
    /\ last.op = "verify-reset-otp"
    /\ last.pending
    /\ res = Json(FALSE, MsgExpired)
    /\ Account(users, S_a).reset_otp_attempts = last.attempts
    /\ last.attempts > 0

\* the challenge stored for the email is one that the candidate matches
Committable(table, emailLower, otpIn) ==
    /\ HasAccount(table, emailLower)
    /\ ~NoChallenge(Account(table, emailLower))
    /\ bcryptCompare(Trim(otpIn), Account(table, emailLower).reset_otp_hash)

\* the step is a forgot-password or a reset-password for the email: every
\* step but the clock's answers a request, which last' then records
RequestOrCommit(emailLower) ==
    /\ now' = now
    /\ last'.op \in {"forgot-password", "reset-password"}
    /\ NormalizeEmail(last'.email) = emailLower

(* C18: once verify-reset-otp has answered Valid for a code, a             *)
(* reset-password with that code and a new password, before expiresAt and  *)
(* with no forgot-password or reset-password for the account in between,   *)
(* succeeds and installs the new password, however many attempts are       *)
(* stored. In three parts: a Valid verify leaves a challenge the code      *)
(* matches; every step other than a request or commit for the account      *)
(* keeps that challenge and its expiresAt; and with such a challenge       *)
(* before expiresAt the commit succeeds.                                   *)
C18_VerifiedCodeCommits ==
    [][/\ (last'.op = "verify-reset-otp" /\ res' = Json(TRUE, MsgValid))
          => \A email \in {last'.email}, otp \in OtpInputs :
                VerifyResetOtp(email, otp)
                  => Committable(users', NormalizeEmail(email), otp)
       /\ \A e \in NormEmails :
             (users' # users /\ ~RequestOrCommit(e))
               => \A otp \in OtpInputs :
                     Committable(users, e, otp)
                       => /\ Committable(users', e, otp)
                          /\ Account(users', e).reset_otp_expires
                               = Account(users, e).reset_otp_expires
       /\ (last'.op = "reset-password" /\ now' = now)
          => \A email \in {last'.email}, otp \in OtpInputs :
                LET e == NormalizeEmail(email)
                IN  (/\ Committable(users, e, otp)
                     /\ now < Account(users, e).reset_otp_expires.time)
                    => \A newPassword \in Passwords \ {<<>>} :
                          ResetPassword(email, otp, newPassword)
                          => /\ res' = Json(TRUE, MsgUpdated)
                             /\ Account(users', e).password_hash.digest
                                  = newPassword
                             /\ LoginResponse(users', email,
                                              newPassword).success]_vars

C18_Witness ==
    /\ last.op = "reset-password"
    /\ last.pending
    /\ last.attempts = 5
    /\ res = Json(TRUE, MsgUpdated)
    /\ LoginResponse(users, S_A_pad, P_6).success

(* C19: in every reachable state, the password that each account's        *)
(* password_hash verifies has at least 6 characters, the one installed by  *)
(* a successful reset-password included.                                   *)
C19_PasswordsHaveMinLength ==
    \A i \in 1..Len(users) : Len(users[i].password_hash.digest) >= 6

====
